---- MODULE Spec2Model ----
(***************************************************************************)
(* Model of the spreadsheet operation engine of excelchat                  *)
(* (backend/services): one session of FullDataAgent with its uploads, its  *)
(* chain bookkeeping (last_generated_file, generated_files_history,        *)
(* files) and the workbooks written to the outputs directory.              *)
(*                                                                         *)
(* Abstractions.  A table (DataFrame) has one column; it is the sequence   *)
(* of that column's values.  A worksheet is its name and its data rows     *)
(* (row 1, the header, is implicit); a cell's style (fill, font, border,   *)
(* alignment, number format) is one value, "none" or a colour.  A path is  *)
(* the pair of the filename prefix and the clock second in it.             *)
(***************************************************************************)
EXTENDS Integers, Sequences, FiniteSets, TLC

\* ------------------------------------------------------------------ bounds
MaxApplies == 2
MaxUploads == 2
MaxClock == 1
MaxGsRequests == 2
MaxRows == 3

\* ------------------------------------------------------------------ inputs
UploadNames == {"A.xlsx", "B.xlsx"}
CondValues == {1, 2}
TableOf(name) == IF name = "A.xlsx" THEN <<1, 2>> ELSE <<2, 1>>
Signals == {"last_generated", "original_files"}

\* ------------------------------------------------------------- basic values
NoPath == [pre |-> "", ts |-> 0]
Path(prefix, t) == [pre |-> prefix, ts |-> t]
NoId == [k |-> "", n |-> "", i |-> 0]
NoLast == [some |-> FALSE, path |-> NoPath, type |-> "", hasSheets |-> FALSE, sheets |-> <<>>]
NoDf == [has |-> FALSE, df |-> <<>>]

\* str.lower() on the names that occur
Lower(s) ==
  CASE s = "A" -> "a" [] s = "B" -> "b" [] s = "Z" -> "z" [] s = "X" -> "x" [] s = "X1" -> "x1"
    [] s = "Data" -> "data" [] s = "Sheet1" -> "sheet1"
    [] s = "M_A" -> "m_a" [] s = "M_B" -> "m_b"
    [] OTHER -> s

\* the sheet name the merge derives from a filename: the extension is removed
StripExt(f) ==
  CASE f = "A.xlsx" -> "A" [] f = "B.xlsx" -> "B" [] f = "X.xlsx" -> "X"
    [] f = "Data.xlsx" -> "Data" [] f = "Sheet1.xlsx" -> "Sheet1"
    [] f = "M_A.xlsx" -> "M_A" [] f = "M_B.xlsx" -> "M_B"
    [] OTHER -> f

\* f"{sheet_name}.xlsx"
XlsxName(s) ==
  CASE s = "A" -> "A.xlsx" [] s = "B" -> "B.xlsx" [] s = "X" -> "X.xlsx"
    [] s = "Data" -> "Data.xlsx" [] s = "Sheet1" -> "Sheet1.xlsx"
    [] s = "M_A" -> "M_A.xlsx" [] s = "M_B" -> "M_B.xlsx"
    [] OTHER -> s

\* ------------------------------------------------------------ workbook I/O
PlainRows(df) == [i \in 1..Len(df) |-> [v |-> df[i], fill |-> "none"]]

\* pd.read_excel: the values of a sheet, styles dropped
Values(rows) == [i \in 1..Len(rows) |-> rows[i].v]

SheetPos(book, name) ==
  IF \E i \in 1..Len(book) : book[i].name = name
  THEN CHOOSE i \in 1..Len(book) :
         book[i].name = name /\ \A j \in 1..(i - 1) : book[j].name # name
  ELSE 0

\* a writer that loses the last row of every table
to_excel_short(book, name, df) ==
  Append(book, [name |-> name, rows |-> PlainRows(SubSeq(df, 1, Len(df) - 1))])

\* df.to_excel(writer, sheet_name=name): a new sheet, or, when the writer
\* already holds a sheet of that name, the cells written over that sheet
to_excel(book, name, df) ==
  LET i == SheetPos(book, name) IN
  IF i = 0
  THEN Append(book, [name |-> name, rows |-> PlainRows(df)])
  ELSE [book EXCEPT ![i].rows =
          PlainRows(df) \o SubSeq(@, Len(df) + 1, Len(@))]

\* to_excel(index=False) writes the header row above the data rows; a sheet
\* of a workbook here holds the data rows
written_rows(sheet) == 1 + Len(sheet.rows)

RECURSIVE ExcelWriter(_, _)
ExcelWriter(book, sheets) ==
  IF sheets = <<>> THEN book
  ELSE ExcelWriter(to_excel(book, Head(sheets).sheet_name, Head(sheets).df),
                   Tail(sheets))

\* pd.ExcelFile(path).sheet_names + pd.read_excel per sheet
ReadAllSheets(wb) ==
  [i \in 1..Len(wb) |-> [sheet_name |-> wb[i].name, df |-> Values(wb[i].rows)]]

\* ------------------------------------------------------ row-level transforms
\* An operation spec is a record of its keys: rlr (remove_last_row), filter
\* (0: absent, else the value of {v: {operator: "==", value}}), hl
\* (highlight_rows, 0: absent, else the value of the == condition; colour
\* yellow), target (target_sheet, "": absent), all (apply_to_all_sheets).
Op(rlr, flt, hl, target, all) ==
  [rlr |-> rlr, filter |-> flt, hl |-> hl, target |-> target, all |-> all]

remove_last_row(df) == IF Len(df) > 0 THEN SubSeq(df, 1, Len(df) - 1) ELSE df

filter_eq(df, val) == SelectSeq(df, LAMBDA x : x = val)

\* ExcelOperations._apply_data_operations
apply_data_operations(df, op) ==
  LET d1 == IF op.rlr THEN remove_last_row(df) ELSE df
      d2 == IF op.filter # 0 THEN filter_eq(d1, op.filter) ELSE d1
  IN d2

\* multi_sheet_handler._apply_operations_to_dataframe
apply_operations_to_dataframe(df, op) ==
  LET d1 == IF op.rlr THEN remove_last_row(df) ELSE df
      d2 == IF op.filter # 0 THEN filter_eq(d1, op.filter) ELSE d1
  IN d2

\* FullDataAgent._apply_single_operation_to_df
apply_single_operation_to_df(df, op) ==
  LET d1 == IF op.rlr THEN remove_last_row(df) ELSE df
      d2 == IF op.filter # 0 THEN filter_eq(d1, op.filter) ELSE d1
  IN d2

\* fill of every row whose value meets the == condition
HighlightRows(rows, val) ==
  [i \in 1..Len(rows) |->
     IF rows[i].v = val THEN [rows[i] EXCEPT !.fill = "yellow"] ELSE rows[i]]

\* ------------------------------------------------------------------- state
VARIABLES
  files,                    \* session_data[sid]["files"], in insertion order
  combined_df,              \* session_data[sid]["combined_df"]
  active_file,              \* session_data[sid]["active_file"]
  last_generated_file,      \* session_data[sid]["last_generated_file"]
  generated_files_history,  \* session_data[sid]["generated_files_history"]
  conversation_history,     \* number of entries of conversation_history
  disk,                     \* uploads and outputs directories: path -> workbook
  now,                      \* int(time.time()) of the latest request
  nApplies, nUploads,       \* requests made so far
  req, res, pre,            \* the latest request, its response, the state before it
  gs_files,                 \* session_data[s]["files"] of the Google-Sheets sessions
  formatter_session_id,     \* ExcelOperations.google_sheets_formatter.session_id
  gs_pc,                    \* where the request thread of each session stands
  gs_local,                 \* the locals of each request thread
  gs_alone,                 \* the files each session would hold had it run alone
  gs_n,                     \* requests started per session
  call, ret                 \* a call of one operation on a table, and what it returns

xvars == <<files, combined_df, active_file, last_generated_file,
           generated_files_history, conversation_history, disk, now,
           nApplies, nUploads, req, res, pre>>

gvars == <<gs_files, formatter_session_id, gs_pc, gs_local, gs_alone, gs_n>>

ovars == <<call, ret>>

vars == <<xvars, gvars, ovars>>

session == <<files, combined_df, active_file, last_generated_file,
             generated_files_history, conversation_history>>

NoReq == [kind |-> "none", op |-> Op(FALSE, 0, 0, "", FALSE), ops |-> <<>>,
          merge |-> FALSE, signal |-> "", ioFail |-> FALSE]
NoRes == [success |-> FALSE, file |-> NoPath, path |-> "", note |-> ""]
Snapshot ==
  [files |-> files, last |-> last_generated_file,
   history |-> generated_files_history, disk |-> disk,
   combined |-> combined_df, active |-> active_file]

Sessions == {"s1", "s2"}
GsTable(s) == IF s = "s1" THEN <<1, 2>> ELSE <<2, 1>>
GsFile(name, df) == [sheet_name |-> name, df |-> df]
NoLocal == [list |-> FALSE, ops |-> <<>>, merge |-> FALSE, df |-> <<>>,
            processed |-> <<>>, expect |-> <<>>]

InitSessions ==
  /\ gs_files = [s \in Sessions |-> <<GsFile("", GsTable(s))>>]
  /\ formatter_session_id = ""
  /\ gs_pc = [s \in Sessions |-> "idle"]
  /\ gs_local = [s \in Sessions |-> NoLocal]
  /\ gs_alone = [s \in Sessions |-> <<GsFile("", GsTable(s))>>]
  /\ gs_n = [s \in Sessions |-> 0]
  /\ files = <<>>
  /\ combined_df = NoDf
  /\ active_file = NoId
  /\ last_generated_file = NoLast
  /\ generated_files_history = <<>>
  /\ conversation_history = 0
  /\ disk = <<>>
  /\ now = 0
  /\ nApplies = 0
  /\ nUploads = 0
  /\ req = NoReq
  /\ res = NoRes
  /\ pre = [files |-> <<>>, last |-> NoLast, history |-> <<>>, disk |-> <<>>,
            combined |-> NoDf, active |-> NoId]

NoCall == [fn |-> "none"]
Pending == [done |-> FALSE]

Init ==
  /\ InitSessions
  /\ call = NoCall
  /\ ret = Pending

Exists(p) == p \in DOMAIN disk

\* write workbook wb at path p
Save(d, p, wb) == [q \in (DOMAIN d) \cup {p} |-> IF q = p THEN wb ELSE d[q]]

RECURSIVE Concat(_)
Concat(fs) == IF fs = <<>> THEN <<>> ELSE Head(fs).df \o Concat(Tail(fs))

\* FullDataAgent._update_combined_dataframe
update_combined_dataframe(fs) ==
  IF Len(fs) <= 1 THEN NoDf ELSE [has |-> TRUE, df |-> Concat(fs)]

\* FullDataAgent.load_excel_file, a single-sheet workbook; a second upload of
\* a filename is a new entry of the session over the same path
Upload(name, table) ==
  LET id == [k |-> "file", n |-> name, i |-> Len(files) + 1]
      entry == [id |-> id, df |-> table, filename |-> name, sheet_name |-> "",
                is_sheet |-> FALSE, sheet_index |-> 0,
                file_path |-> Path(name, 0), original_file_path |-> NoPath]
      fs == Append(files, entry)
  IN
  /\ nUploads < MaxUploads
  /\ nUploads' = nUploads + 1
  /\ files' = fs
  /\ disk' = Save(disk, Path(name, 0), <<[name |-> "Sheet1", rows |-> PlainRows(table)]>>)
  /\ active_file' = IF active_file = NoId THEN id ELSE active_file
  /\ combined_df' = update_combined_dataframe(fs)
  /\ req' = [NoReq EXCEPT !.kind = "upload"]
  /\ res' = [NoRes EXCEPT !.success = TRUE]
  /\ pre' = Snapshot
  /\ UNCHANGED <<last_generated_file, generated_files_history,
                 conversation_history, now, nApplies, gvars, ovars>>

\* FullDataAgent.load_excel_file, the workbook M.xlsx with sheets A and B
UploadMulti(ta, tb) ==
  LET e(idx, sn, fn, t) ==
        [id |-> [k |-> "upsheet", n |-> sn, i |-> idx], df |-> t, filename |-> fn,
         sheet_name |-> sn, is_sheet |-> TRUE, sheet_index |-> idx,
         file_path |-> NoPath, original_file_path |-> Path("M.xlsx", 0)]
      fs == files \o <<e(0, "A", "M_A", ta), e(1, "B", "M_B", tb)>>
  IN
  /\ nUploads < MaxUploads
  /\ ~Exists(Path("M.xlsx", 0))
  /\ nUploads' = nUploads + 1
  /\ files' = fs
  /\ disk' = Save(disk, Path("M.xlsx", 0),
                  <<[name |-> "A", rows |-> PlainRows(ta)],
                    [name |-> "B", rows |-> PlainRows(tb)]>>)
  /\ active_file' = IF active_file = NoId THEN [k |-> "upsheet", n |-> "A", i |-> 0]
                    ELSE active_file
  /\ combined_df' = update_combined_dataframe(fs)
  /\ req' = [NoReq EXCEPT !.kind = "upload"]
  /\ res' = [NoRes EXCEPT !.success = TRUE]
  /\ pre' = Snapshot
  /\ UNCHANGED <<last_generated_file, generated_files_history,
                 conversation_history, now, nApplies, gvars, ovars>>

\* ------------------------------------------------------- session look-ups
FileIds(fs) == {fs[i].id : i \in 1..Len(fs)}
FileById(fs, id) == fs[CHOOSE i \in 1..Len(fs) : fs[i].id = id]

\* FullDataAgent.get_active_dataframe (the session holds at least one file)
get_active_dataframe(fs, comb, act) ==
  IF Len(fs) = 1 THEN fs[1].df
  ELSE IF comb.has THEN comb.df
  ELSE IF act \in FileIds(fs) THEN FileById(fs, act).df
  ELSE fs[1].df

\* FullDataAgent.get_dataframe_by_sheet_name
get_dataframe_by_sheet_name(fs, name) ==
  LET hit(i) == fs[i].is_sheet /\ Lower(fs[i].sheet_name) = Lower(name) IN
  IF \E i \in 1..Len(fs) : hit(i)
  THEN [has |-> TRUE,
        df |-> fs[CHOOSE i \in 1..Len(fs) :
                    hit(i) /\ \A j \in 1..(i - 1) : ~hit(j)].df]
  ELSE NoDf

\* FullDataAgent._load_all_sheets_from_last_file
load_all_sheets_from_last_file ==
  IF last_generated_file.some /\ Exists(last_generated_file.path)
  THEN ReadAllSheets(disk[last_generated_file.path])
  ELSE <<>>

SheetNames(sheets) == [i \in 1..Len(sheets) |-> sheets[i].sheet_name]
HasSheet(sheets, target) ==
  \E i \in 1..Len(sheets) : Lower(sheets[i].sheet_name) = Lower(target)

\* _handle_excel_operation: is the last generated file a multi-sheet file
is_multi_sheet ==
  \/ last_generated_file.hasSheets /\ Len(last_generated_file.sheets) > 1
  \/ Exists(last_generated_file.path) /\ Len(disk[last_generated_file.path]) > 1

has_multi_sheets == \E i \in 1..Len(files) : files[i].is_sheet

\* _handle_excel_operation: where a single operations dict is taken
Route(op, signal) ==
  IF signal = "last_generated" /\ last_generated_file.some
  THEN IF is_multi_sheet /\ load_all_sheets_from_last_file # <<>>
       THEN IF op.hl # 0
            THEN IF op.target # "" THEN "apply_formatting" ELSE "formatting_needs_target"
            ELSE IF ~op.all /\ op.target # ""
                    /\ ~HasSheet(load_all_sheets_from_last_file, op.target)
                 THEN "sheet_not_found"
                 ELSE "save_updated"
       ELSE IF op.all THEN "unbound_handler"
       ELSE IF op.target # ""
       THEN IF get_dataframe_by_sheet_name(files, op.target).has
            THEN "create_from_session_sheet" ELSE "session_sheet_not_found"
       ELSE "create_from_last"
  ELSE IF signal = "original_files" /\ has_multi_sheets /\ (op.target # "" \/ op.all)
       THEN "multi_sheet_handler"
       ELSE "create_from_session"

\* the table _handle_excel_operation hands to create_excel_with_operations
SourceDf(op, route) ==
  CASE route = "create_from_session_sheet" ->
         get_dataframe_by_sheet_name(files, op.target).df
    [] route = "create_from_last" ->
         Values(disk[last_generated_file.path][1].rows)
    [] OTHER -> get_active_dataframe(files, combined_df, active_file)

\* _handle_excel_operation: the workbook whose formatting is to be preserved
source_file_path ==
  IF last_generated_file.some /\ Exists(last_generated_file.path)
  THEN last_generated_file.path
  ELSE IF active_file \in FileIds(files) THEN FileById(files, active_file).file_path
  ELSE files[1].file_path

\* _handle_excel_operation: the generated filename without its timestamp
OutputPrefix(op) ==
  LET desc == CASE op.filter = 1 -> "_v_1" [] op.filter = 2 -> "_v_2" [] OTHER -> "" IN
  CASE op.hl # 0 /\ desc = "" -> "excel_highlighted"
    [] op.hl # 0 /\ desc = "_v_1" -> "excel_highlighted_v_1"
    [] op.hl # 0 /\ desc = "_v_2" -> "excel_highlighted_v_2"
    [] op.hl = 0 /\ desc = "_v_1" -> "excel_filtered_v_1"
    [] op.hl = 0 /\ desc = "_v_2" -> "excel_filtered_v_2"
    [] OTHER -> "excel_data"

\* ExcelOperations._apply_formatting_operations (highlight_rows)
apply_formatting_operations(rows, op) ==
  IF op.hl # 0 THEN HighlightRows(rows, op.hl) ELSE rows

\* ExcelOperations._create_excel_preserving_format: the active sheet of the
\* source workbook gets the new rows, each in the style of the source's
\* first data row; the other sheets stay
create_excel_preserving_format(processed, op, wb) ==
  LET old == wb[1].rows
      fmt == IF Len(old) >= 1 THEN old[1].fill ELSE "none"
      new == [i \in 1..Len(processed) |-> [v |-> processed[i], fill |-> fmt]]
  IN [wb EXCEPT ![1].rows = apply_formatting_operations(new, op)]

\* ExcelOperations.create_excel_with_operations: the workbook saved
create_excel_with_operations(df, op, src) ==
  LET processed == apply_data_operations(df, op) IN
  IF src # NoPath /\ Exists(src)
  THEN create_excel_preserving_format(processed, op, disk[src])
  ELSE <<[name |-> "Data",
          rows |-> apply_formatting_operations(PlainRows(processed), op)]>>

\* ------------------------------------------------------ request bookkeeping
Begin(kind, op, ops, merge, signal, t, ioFail) ==
  /\ nApplies < MaxApplies
  /\ res.note # "io"
  /\ files # <<>>
  /\ t \in {now, now + 1}
  /\ t <= MaxClock
  /\ nApplies' = nApplies + 1
  /\ now' = t
  /\ req' = [kind |-> kind, op |-> op, ops |-> ops, merge |-> merge,
             signal |-> signal, ioFail |-> ioFail]
  /\ pre' = Snapshot
  /\ UNCHANGED <<nUploads, gvars, ovars>>

Failure(path, note) ==
  res' = [success |-> FALSE, file |-> NoPath, path |-> path, note |-> note]
Success(path, file) ==
  res' = [success |-> TRUE, file |-> file, path |-> path, note |-> ""]

Tracked(p, type, hasSheets, sheets) ==
  [some |-> TRUE, path |-> p, type |-> type, hasSheets |-> hasSheets,
   sheets |-> sheets]

\* FullDataAgent._handle_excel_operation, a single operations dict that ends
\* in create_excel_with_operations or in one of the handler's own failures
HandleExcelOperation(op, signal, t, ioFail) ==
  LET route == Route(op, signal)
      out == Path(OutputPrefix(op), t)
      wb == create_excel_with_operations(SourceDf(op, route), op, source_file_path)
  IN
  /\ Begin("single", op, <<>>, FALSE, signal, t, ioFail)
  /\ route \in {"formatting_needs_target", "sheet_not_found", "unbound_handler",
                "session_sheet_not_found", "create_from_session_sheet",
                "create_from_last", "create_from_session"}
  /\ IF route \in {"formatting_needs_target", "sheet_not_found",
                   "unbound_handler", "session_sheet_not_found"} \/ ioFail
     THEN /\ Failure(route, IF ioFail THEN "io" ELSE route)
          /\ UNCHANGED <<session, disk>>
     ELSE /\ disk' = Save(disk, out, wb)
          /\ conversation_history' = conversation_history + 1
          /\ last_generated_file' = Tracked(out, "excel_operation", FALSE, <<>>)
          /\ generated_files_history' = Append(generated_files_history, out)
          /\ Success(route, out)
          /\ UNCHANGED <<files, combined_df, active_file>>

\* the sheets one operations dict is applied to on the continue path
UpdatedSheets(sheets, op) ==
  [i \in 1..Len(sheets) |->
     IF op.all \/ (op.target # "" /\ Lower(sheets[i].sheet_name) = Lower(op.target))
     THEN [sheets[i] EXCEPT !.df = apply_operations_to_dataframe(@, op)]
     ELSE sheets[i]]

\* values written in place over a sheet of the loaded source workbook
InPlace(old, df) ==
  [i \in 1..Len(df) |->
     [v |-> df[i], fill |-> IF i <= Len(old) THEN old[i].fill ELSE "none"]]

RECURSIVE UpdateWorkbook(_, _)
UpdateWorkbook(wb, sheets) ==
  IF sheets = <<>> THEN wb
  ELSE LET s == Head(sheets)
           i == SheetPos(wb, s.sheet_name)
       IN UpdateWorkbook(
            IF i = 0
            THEN Append(wb, [name |-> s.sheet_name, rows |-> PlainRows(s.df)])
            ELSE [wb EXCEPT ![i].rows = InPlace(@, s.df)],
            Tail(sheets))

\* FullDataAgent._save_updated_multi_sheet_file, reached from the continue
\* path of _handle_excel_operation with the row-level operations applied
SaveUpdatedMultiSheetFile(op, signal, t, ioFail) ==
  LET sheets == UpdatedSheets(load_all_sheets_from_last_file, op)
      out == Path("excel_updated", t)
      keep == last_generated_file.type \in {"merged", "updated_multi_sheet"}
      wb == IF keep THEN UpdateWorkbook(disk[last_generated_file.path], sheets)
            ELSE ExcelWriter(<<>>, sheets)
  IN
  /\ Begin("single", op, <<>>, FALSE, signal, t, ioFail)
  /\ Route(op, signal) = "save_updated"
  /\ IF ioFail
     THEN Failure("save_updated", "io") /\ UNCHANGED <<session, disk>>
     ELSE /\ disk' = Save(disk, out, wb)
          /\ last_generated_file' =
               Tracked(out, "updated_multi_sheet", TRUE, SheetNames(sheets))
          /\ generated_files_history' = Append(generated_files_history, out)
          /\ conversation_history' = conversation_history + 1
          /\ Success("save_updated", out)
          /\ UNCHANGED <<files, combined_df, active_file>>

\* FullDataAgent._apply_formatting_to_multi_sheet_file
ApplyFormattingToMultiSheetFile(op, signal, t, ioFail) ==
  LET sheets == load_all_sheets_from_last_file
      out == Path("excel_formatted", t)
      written == ExcelWriter(<<>>, sheets)
      pos == SheetPos(written, op.target)
      wb == [written EXCEPT ![pos].rows = HighlightRows(@, op.hl)]
  IN
  /\ Begin("single", op, <<>>, FALSE, signal, t, ioFail)
  /\ Route(op, signal) = "apply_formatting"
  /\ IF ioFail
     THEN Failure("apply_formatting", "io") /\ UNCHANGED <<session, disk>>
     ELSE IF pos = 0
     THEN /\ disk' = Save(disk, out, written)
          /\ Failure("apply_formatting", "KeyError")
          /\ UNCHANGED session
     ELSE /\ disk' = Save(disk, out, wb)
          /\ last_generated_file' =
               Tracked(out, "updated_multi_sheet", TRUE, SheetNames(sheets))
          /\ generated_files_history' = Append(generated_files_history, out)
          /\ Success("apply_formatting", out)
          /\ UNCHANGED <<files, combined_df, active_file, conversation_history>>

\* sheets_data.sort(key=sheet_index): stable insertion sort
RECURSIVE SortByIndex(_)
SortByIndex(s) ==
  IF s = <<>> THEN <<>>
  ELSE LET rest == SortByIndex(SubSeq(s, 1, Len(s) - 1))
           x == s[Len(s)]
           k == Cardinality({i \in 1..Len(rest) : rest[i].sheet_index <= x.sheet_index})
       IN SubSeq(rest, 1, k) \o <<x>> \o SubSeq(rest, k + 1, Len(rest))

\* the session's files with is_sheet, as sheets in sheet_index order
SessionSheets(fs) ==
  LET pick == SelectSeq(fs, LAMBDA f : f.is_sheet) IN
  SortByIndex([i \in 1..Len(pick) |->
                 [sheet_name |-> pick[i].sheet_name, df |-> pick[i].df,
                  sheet_index |-> pick[i].sheet_index]])

\* multi_sheet_handler.handle_multi_sheet_operation: routing of one dict
ProcessedSheets(sheets, op) ==
  [i \in 1..Len(sheets) |->
     IF \/ op.all
        \/ op.target # "" /\ Lower(sheets[i].sheet_name) = Lower(op.target)
        \/ op.target = "" /\ ~op.all
     THEN [sheets[i] EXCEPT !.df = apply_operations_to_dataframe(@, op)]
     ELSE sheets[i]]

\* multi_sheet_handler._apply_highlighting_to_sheet
apply_highlighting_to_sheet(wb, op, sheets) ==
  LET name == IF op.target # "" THEN op.target ELSE sheets[1].sheet_name
      pos == SheetPos(wb, name)
  IN IF pos = 0 THEN wb
     ELSE [wb EXCEPT ![pos].rows = HighlightRows(@, op.hl)]

\* multi_sheet_handler.handle_multi_sheet_operation, reached from
\* _handle_excel_operation when the source is the uploaded files
HandleMultiSheetOperation(op, signal, t) ==
  LET sheets == ProcessedSheets(SessionSheets(files), op)
      out == Path("excel_multi_sheet", t)
      written == ExcelWriter(<<>>, sheets)
      wb == IF op.hl # 0 THEN apply_highlighting_to_sheet(written, op, sheets)
            ELSE written
  IN
  /\ Begin("single", op, <<>>, FALSE, signal, t, FALSE)
  /\ Route(op, signal) = "multi_sheet_handler"
  /\ disk' = Save(disk, out, wb)
  /\ Success("multi_sheet_handler", out)
  /\ UNCHANGED session

MergedPrefix(n) ==
  CASE n = 2 -> "excel_merged_2_files" [] n = 3 -> "excel_merged_3_files"
    [] n = 4 -> "excel_merged_4_files" [] OTHER -> "excel_merged_n_files"

\* FullDataAgent._handle_merge_files_operation: what it writes and commits
merge_with_last_file(signal) ==
  last_generated_file.some /\ Len(files) = 1 /\ signal = "last_generated"

sheets_to_merge(signal) ==
  (IF merge_with_last_file(signal) /\ Exists(last_generated_file.path)
   THEN ReadAllSheets(disk[last_generated_file.path]) ELSE <<>>)
  \o [i \in 1..Len(files) |->
        [sheet_name |-> StripExt(files[i].filename), df |-> files[i].df]]

total_files_to_merge(signal) ==
  Len(files) + (IF merge_with_last_file(signal) THEN 1 ELSE 0)

MergeOutcome(signal, t) ==
  LET sheets == sheets_to_merge(signal)
      out == Path(MergedPrefix(total_files_to_merge(signal)), t)
      sheet_files ==
        [i \in 1..Len(sheets) |->
           [id |-> [k |-> "sheet", n |-> sheets[i].sheet_name, i |-> i - 1],
            df |-> sheets[i].df, filename |-> XlsxName(sheets[i].sheet_name),
            sheet_name |-> sheets[i].sheet_name, is_sheet |-> TRUE,
            sheet_index |-> i - 1, file_path |-> out,
            original_file_path |-> NoPath]]
  IN [file |-> out,
      disk |-> Save(disk, out, ExcelWriter(<<>>, sheets)),
      files |-> sheet_files,
      conv |-> conversation_history + 1,
      last |-> Tracked(out, "merged", TRUE, SheetNames(sheets)),
      history |-> Append(generated_files_history, out)]

HandleMergeFilesOperation(signal, t, ioFail) ==
  LET m == MergeOutcome(signal, t) IN
  /\ Begin("merge", NoReq.op, <<>>, TRUE, signal, t, ioFail)
  /\ IF total_files_to_merge(signal) < 2
     THEN Failure("merge", "need_two_files") /\ UNCHANGED <<session, disk>>
     ELSE IF ioFail
     THEN Failure("merge", "io") /\ UNCHANGED <<session, disk>>
     ELSE /\ disk' = m.disk
          /\ files' = m.files
          /\ conversation_history' = m.conv
          /\ last_generated_file' = m.last
          /\ generated_files_history' = m.history
          /\ Success("merge", m.file)
          /\ UNCHANGED <<combined_df, active_file>>

\* FullDataAgent._handle_rename_tabs_operation with rename_tabs
\* {"sheet_0": "X"}
RenameSource ==
  IF last_generated_file.some THEN last_generated_file.path
  ELSE LET ok(i) == \/ files[i].is_sheet /\ Exists(files[i].original_file_path)
                    \/ ~files[i].is_sheet /\ Exists(files[i].file_path)
       IN IF \E i \in 1..Len(files) : ok(i)
          THEN LET f == files[CHOOSE i \in 1..Len(files) :
                                ok(i) /\ \A j \in 1..(i - 1) : ~ok(j)]
               IN IF f.is_sheet THEN f.original_file_path ELSE f.file_path
          ELSE NoPath

\* openpyxl: a title already used in the workbook gets a numeric suffix
avoid_duplicate_name(wb, name) ==
  IF SheetPos(wb, name) = 0 THEN name ELSE "X1"

HandleRenameTabsOperation(t) ==
  LET src == RenameSource
      out == Path("excel_renamed_tabs", t)
      wb == [disk[src] EXCEPT ![1].name = avoid_duplicate_name(disk[src], "X")]
  IN
  /\ Begin("rename", NoReq.op, <<>>, FALSE, "", t, FALSE)
  /\ IF ~Exists(src)
     THEN Failure("rename", "no_excel_file") /\ UNCHANGED <<session, disk>>
     ELSE /\ disk' = Save(disk, out, wb)
          /\ last_generated_file' = Tracked(out, "renamed_tabs", TRUE, <<"X">>)
          /\ generated_files_history' = Append(generated_files_history, out)
          /\ conversation_history' = conversation_history + 1
          /\ Success("rename", out)
          /\ UNCHANGED <<files, combined_df, active_file>>

\* _handle_multi_operation_request, single table: the elements folded in order
RECURSIVE FoldSingle(_, _)
FoldSingle(df, ops) ==
  IF ops = <<>> THEN df
  ELSE FoldSingle(apply_single_operation_to_df(df, Head(ops)), Tail(ops))

\* _handle_multi_operation_request, multi-sheet: routing of one element
ApplyElement(sheets, op) ==
  LET hit(i) == Lower(sheets[i].sheet_name) = Lower(op.target) IN
  IF op.all \/ op.target = ""
  THEN [i \in 1..Len(sheets) |->
          [sheets[i] EXCEPT !.df = apply_single_operation_to_df(@, op)]]
  ELSE IF \E i \in 1..Len(sheets) : hit(i)
  THEN [sheets EXCEPT
          ![CHOOSE i \in 1..Len(sheets) : hit(i) /\ \A j \in 1..(i - 1) : ~hit(j)].df =
             apply_single_operation_to_df(@, op)]
  ELSE sheets

RECURSIVE FoldElements(_, _)
FoldElements(sheets, ops) ==
  IF ops = <<>> THEN sheets
  ELSE FoldElements(ApplyElement(sheets, Head(ops)), Tail(ops))

\* _apply_formatting_operations_to_multi_sheet: the sheets one element formats
target_sheets(sheets, op) ==
  LET hit(i) == Lower(sheets[i].sheet_name) = Lower(op.target) IN
  IF op.all THEN {sheets[i].sheet_name : i \in 1..Len(sheets)}
  ELSE IF op.target # "" /\ \E i \in 1..Len(sheets) : hit(i)
  THEN {sheets[CHOOSE i \in 1..Len(sheets) :
                 hit(i) /\ \A j \in 1..(i - 1) : ~hit(j)].sheet_name}
  ELSE {}

RECURSIVE apply_formatting_operations_to_multi_sheet(_, _, _)
apply_formatting_operations_to_multi_sheet(wb, ops, sheets) ==
  IF ops = <<>> THEN wb
  ELSE LET op == Head(ops)
           tg == target_sheets(sheets, op)
           next == [i \in 1..Len(wb) |->
                      IF op.hl # 0 /\ wb[i].name \in tg
                      THEN [wb[i] EXCEPT !.rows = HighlightRows(@, op.hl)]
                      ELSE wb[i]]
       IN apply_formatting_operations_to_multi_sheet(next, Tail(ops), sheets)

\* FullDataAgent._handle_multi_operation_request.  merge: the first element
\* of the list is merge_files; ops are the elements after it.
HandleMultiOperationRequest(ops, merge, signal, t, ioFail) ==
  LET m == MergeOutcome(signal, t)
      fs == IF merge THEN m.files ELSE files
      dk == IF merge THEN m.disk ELSE disk
      sheets_data == FoldElements(SessionSheets(fs), ops)
      out == Path("excel_multi_op", t)
      single == <<[name |-> "Data",
                   rows |-> PlainRows(FoldSingle(
                      get_active_dataframe(files, combined_df, active_file), ops))]>>
      wb == apply_formatting_operations_to_multi_sheet(
              ExcelWriter(<<>>, sheets_data), ops, sheets_data)
  IN
  /\ Begin("multi", NoReq.op, ops, merge, signal, t, ioFail)
  /\ merge \/ ops # <<>>
  /\ IF merge /\ total_files_to_merge(signal) < 2
     THEN Failure("multi_merge", "need_two_files") /\ UNCHANGED <<session, disk>>
     ELSE IF merge /\ ops = <<>>
     THEN \* the list holds the merge alone: the merge's own result
          IF ioFail
          THEN Failure("multi_merge", "io") /\ UNCHANGED <<session, disk>>
          ELSE /\ disk' = m.disk
               /\ files' = m.files
               /\ conversation_history' = m.conv
               /\ last_generated_file' = m.last
               /\ generated_files_history' = m.history
               /\ Success("multi_merge", m.file)
               /\ UNCHANGED <<combined_df, active_file>>
     ELSE IF SessionSheets(fs) = <<>>
     THEN \* single table: the workbook is written, the chain is not touched
          IF ioFail
          THEN Failure("multi_single", "io") /\ UNCHANGED <<session, disk>>
          ELSE /\ disk' = Save(disk, out, single)
               /\ Success("multi_single", out)
               /\ UNCHANGED session
     ELSE IF ioFail
     THEN \* the write of the result raises after the merge has committed
          /\ disk' = dk
          /\ files' = fs
          /\ conversation_history' = IF merge THEN m.conv ELSE conversation_history
          /\ last_generated_file' = IF merge THEN m.last ELSE last_generated_file
          /\ generated_files_history' =
               IF merge THEN m.history ELSE generated_files_history
          /\ Failure("multi_sheets", "io")
          /\ UNCHANGED <<combined_df, active_file>>
     ELSE /\ disk' = Save(dk, out, wb)
          /\ files' = fs
          /\ conversation_history' = IF merge THEN m.conv ELSE conversation_history
          /\ last_generated_file' =
               Tracked(out, "multi_operation", TRUE, SheetNames(sheets_data))
          /\ generated_files_history' =
               Append(IF merge THEN m.history ELSE generated_files_history, out)
          /\ Success("multi_sheets", out)
          /\ UNCHANGED <<combined_df, active_file>>

\* ---------------------------------------------------------------- requests
\* single operations dicts
OpSet ==
  {Op(TRUE, 0, 0, tg, FALSE) : tg \in {"", "a", "Z"}}
  \cup {Op(TRUE, 0, 0, "", TRUE), Op(FALSE, 1, 0, "", FALSE)}
  \cup {Op(FALSE, 0, 1, tg, FALSE) : tg \in {"", "a", "A"}}
  \cup {Op(FALSE, 0, 2, "", FALSE)}

\* elements of an operations list
ElemSet ==
  {Op(TRUE, 0, 0, "", FALSE), Op(TRUE, 0, 0, "Z", FALSE),
   Op(FALSE, 1, 0, "", FALSE), Op(FALSE, 0, 1, "", FALSE),
   Op(FALSE, 0, 1, "a", FALSE)}

OpLists ==
  {<<e>> : e \in ElemSet}
  \cup {<<Op(FALSE, 1, 0, "", FALSE), Op(TRUE, 0, 0, "", FALSE)>>,
        <<Op(TRUE, 0, 0, "", FALSE), Op(FALSE, 1, 0, "", FALSE)>>}

Next ==
  \/ \E name \in UploadNames : Upload(name, TableOf(name))
  \/ UploadMulti(<<1, 2>>, <<2, 1>>)
  \/ \E op \in OpSet, sg \in Signals, t \in 0..MaxClock :
       \/ HandleExcelOperation(op, sg, t, FALSE)
       \/ SaveUpdatedMultiSheetFile(op, sg, t, FALSE)
       \/ ApplyFormattingToMultiSheetFile(op, sg, t, FALSE)
       \/ HandleMultiSheetOperation(op, sg, t)
  \/ \E sg \in Signals, t \in 0..MaxClock, io \in BOOLEAN :
       HandleMergeFilesOperation(sg, t, io)
  \/ \E t \in 0..MaxClock : HandleRenameTabsOperation(t)
  \/ \E ops \in OpLists, t \in 0..MaxClock, io \in BOOLEAN :
       HandleMultiOperationRequest(ops, FALSE, "last_generated", t, io)
  \/ \E ops \in {<<>>, <<Op(TRUE, 0, 0, "", FALSE)>>}, t \in 0..MaxClock, io \in BOOLEAN :
       HandleMultiOperationRequest(ops, TRUE, "original_files", t, io)

Spec == Init /\ [][Next]_vars

\* ------------------------------------------- Google-Sheets sessions, threads
\* merged_ops.update(op) over the elements of an operations list
Flatten(a, b) ==
  [rlr |-> a.rlr \/ b.rlr,
   filter |-> IF b.filter # 0 THEN b.filter ELSE a.filter,
   hl |-> IF b.hl # 0 THEN b.hl ELSE a.hl,
   target |-> IF b.target # "" THEN b.target ELSE a.target,
   all |-> a.all \/ b.all]

RECURSIVE merged_ops(_, _)
merged_ops(acc, ops) ==
  IF ops = <<>> THEN acc ELSE merged_ops(Flatten(acc, Head(ops)), Tail(ops))

GsDf(fs) == IF Len(fs) = 1 THEN fs[1].df ELSE Concat(fs)

\* what ExcelOperations.apply_operations_to_google_sheet computes from df
GsProcessed(df, ops) == apply_data_operations(df, merged_ops(NoReq.op, ops))

\* _handle_excel_operation of a Google-Sheets session up to the data
\* operations of ExcelOperations.apply_operations_to_google_sheet
GsBegin(s, list, ops, merge) ==
  /\ gs_pc[s] \in {"idle", "done"}
  /\ gs_n[s] < MaxGsRequests
  /\ gs_n' = [gs_n EXCEPT ![s] = @ + 1]
  /\ gs_local' = [gs_local EXCEPT ![s] =
       [list |-> list, ops |-> ops, merge |-> merge,
        df |-> GsDf(gs_files[s]),
        processed |-> GsProcessed(GsDf(gs_files[s]), ops),
        expect |-> GsProcessed(GsDf(gs_alone[s]), ops)]]
  /\ gs_pc' = [gs_pc EXCEPT ![s] = "prepared"]
  /\ UNCHANGED <<gs_files, formatter_session_id, gs_alone, xvars, ovars>>

\* ExcelOperations.apply_operations_to_google_sheet: the session is stored in
\* the one formatter all request threads share
GsBind(s) ==
  /\ gs_pc[s] = "prepared"
  /\ formatter_session_id' = s
  /\ gs_pc' = [gs_pc EXCEPT ![s] = "bound"]
  /\ UNCHANGED <<gs_files, gs_local, gs_alone, gs_n, xvars, ovars>>

\* GoogleSheetsFormatter.apply_operations_to_google_sheet: with merge_files,
\* _apply_merge_operation stores the merged sheet under self.session_id
GsApply(s) ==
  LET merged(df) == <<GsFile("Merged_Data", df)>> IN
  /\ gs_pc[s] = "bound"
  /\ gs_files' = IF gs_local[s].merge
                 THEN [gs_files EXCEPT ![formatter_session_id] =
                         merged(gs_local[s].processed)]
                 ELSE gs_files
  /\ gs_alone' = IF gs_local[s].merge
                 THEN [gs_alone EXCEPT ![s] = merged(gs_local[s].expect)]
                 ELSE gs_alone
  /\ gs_pc' = [gs_pc EXCEPT ![s] = "done"]
  /\ UNCHANGED <<formatter_session_id, gs_local, gs_n, xvars, ovars>>

GsLists ==
  {<<Op(FALSE, 1, 0, "", FALSE), Op(TRUE, 0, 0, "", FALSE)>>,
   <<Op(TRUE, 0, 0, "", FALSE), Op(FALSE, 1, 0, "", FALSE)>>}

NextGS ==
  \/ \E s \in Sessions, merge \in BOOLEAN :
       GsBegin(s, FALSE, <<Op(TRUE, 0, 0, "", FALSE)>>, merge)
  \/ \E s \in Sessions, ops \in GsLists : GsBegin(s, TRUE, ops, FALSE)
  \/ \E s \in Sessions : GsBind(s)
  \/ \E s \in Sessions : GsApply(s)

SpecGS == Init /\ [][NextGS]_vars

\* ------------------------------------------ operations on one table, alone
\* A table here has the columns g and v; a cell of g may be empty (Null).
Null == "null"
GVals == {"A", "B", Null}
VVals == {1, 2, 3}
Rows == [g : GVals, v : VVals]
TablesOver(G, V, n) == UNION {[1..k -> [g : G, v : V]] : k \in 0..n}
TablesUpTo(n) == TablesOver(GVals, VVals, n)

RECURSIVE SumV(_)
SumV(rows) == IF rows = <<>> THEN 0 ELSE Head(rows).v + SumV(Tail(rows))

DataRow(r) == [kind |-> "data", g |-> r.g, v |-> r.v]

\* the groups the forward scan of the group_by column finds: a group is
\* closed when the value changes and the value before was not empty
RECURSIVE ScanGroups(_, _, _, _)
ScanGroups(T, i, current_group, group_start_row) ==
  IF i > Len(T)
  THEN IF current_group # Null
       THEN <<[name |-> current_group, start_row |-> group_start_row,
               end_row |-> Len(T)]>>
       ELSE <<>>
  ELSE IF current_group # Null /\ T[i].g # current_group
       THEN <<[name |-> current_group, start_row |-> group_start_row,
               end_row |-> i - 1]>>
            \o ScanGroups(T, i + 1, T[i].g, i)
       ELSE ScanGroups(T, i + 1, T[i].g, group_start_row)

\* the first row of the run of cells equal to name that ends at end_row
RECURSIVE RunStart(_, _, _)
RunStart(T, name, r) ==
  IF r >= 1 /\ T[r].g = name THEN RunStart(T, name, r - 1) ELSE r + 1

\* count / sum / average over rows start_row..end_row of column v
calculated_value(T, function, start_row, end_row) ==
  LET range == SubSeq(T, start_row, end_row) IN
  CASE function = "COUNT" -> <<Len(range), 1>>
    [] function = "SUM" -> <<SumV(range), 1>>
    [] OTHER -> IF range = <<>> THEN <<0, 1>> ELSE <<SumV(range), Len(range)>>

\* the word the three implementations put after the group's name
SubtotalWord(impl) == IF impl = "excel_operations" THEN "Subtotal" ELSE "Count"

SubtotalRow(T, impl, function, grp) ==
  LET start == IF impl = "full_data_agent"
               THEN RunStart(T, grp.name, grp.end_row)
               ELSE grp.start_row
  IN [kind |-> "subtotal", g |-> grp.name, word |-> SubtotalWord(impl),
      v |-> calculated_value(T, function, start, grp.end_row)]

\* the sheet after the subtotal rows are inserted, last group first
RECURSIVE InsertSubtotals(_, _, _, _, _)
InsertSubtotals(T, impl, function, groups, i) ==
  IF i > Len(T) THEN <<>>
  ELSE <<DataRow(T[i])>>
       \o (IF \E k \in 1..Len(groups) : groups[k].end_row = i
           THEN <<SubtotalRow(T, impl, function,
                    groups[CHOOSE k \in 1..Len(groups) : groups[k].end_row = i])>>
           ELSE <<>>)
       \o InsertSubtotals(T, impl, function, groups, i + 1)

apply_subtotals(T, impl, function) ==
  InsertSubtotals(T, impl, function, ScanGroups(T, 1, Null, 1), 1)

Impls == {"excel_operations", "full_data_agent", "multi_sheet_handler"}
Functions == {"COUNT", "SUM", "AVERAGE"}

\* one of the three subtotal routines applied to the sheet holding table T
SubtotalCalls ==
  {[fn |-> "subtotals", impl |-> impl, T |-> T, function |-> function] :
     impl \in Impls, T \in TablesOver(GVals, {1, 2}, MaxRows), function \in Functions}

ApplySubtotals ==
  /\ call.fn = "subtotals"
  /\ ~ret.done
  /\ ret' = [done |-> TRUE, ok |-> TRUE,
             sheet |-> apply_subtotals(call.T, call.impl, call.function)]
  /\ UNCHANGED <<xvars, gvars, call>>

\* ---- conditions on a column
Columns == {"g", "v"}
Str(x) == [t |-> "str", s |-> x, n |-> 0]
Num(x) == [t |-> "num", s |-> "", n |-> x]
NullCell == [t |-> "null", s |-> "", n |-> 0]
Cell(row, column) ==
  IF column = "g" THEN (IF row.g = Null THEN NullCell ELSE Str(row.g)) ELSE Num(row.v)

Condition(column, operator, value) ==
  [column |-> column, operator |-> operator, value |-> value]

StrLess(a, b) == a = "A" /\ b = "B"
Less(x, y) == IF x.t = "num" THEN x.n < y.n ELSE StrLess(x.s, y.s)

\* str(cell).lower() contains str(value).lower(), an empty cell reading "nan"
StrContains(x, y) ==
  CASE x.t = "null" -> y.s \in {"a", "A", "n"}
    [] x.t = "str" -> y.s \in {x.s, Lower(x.s)}
    [] OTHER -> FALSE

\* an order comparison of a cell with a value of another type raises
CompareRaises(x, operator, y) ==
  /\ operator \in {">", "<", ">=", "<="}
  /\ x.t # "null"
  /\ x.t # y.t

\* one cell against a condition, as pandas compares it
Compare(x, operator, y) ==
  CASE operator = "contains" -> StrContains(x, y)
    [] operator = "in" -> x.t # "null" /\ x \in y
    [] x.t = "null" -> operator = "!="
    [] operator = "==" -> x = y
    [] operator = "!=" -> x # y
    [] x.t # y.t -> FALSE
    [] operator = ">" -> Less(y, x)
    [] operator = "<" -> Less(x, y)
    [] operator = ">=" -> ~Less(x, y)
    [] OTHER -> ~Less(y, x)

Raises(T, c) ==
  /\ c.column \in Columns
  /\ \E i \in 1..Len(T) : CompareRaises(Cell(T[i], c.column), c.operator, c.value)

All(T) == [i \in 1..Len(T) |-> i]

\* df[mask]: the indices, in order, of the rows where mask is True
Keep(T, mask) == SelectSeq(All(T), LAMBDA i : mask[i])

\* ExcelOperations._apply_filter behind the column check of
\* _apply_data_operations: the indices of the rows kept
apply_filter(T, c) ==
  IF c.column \notin Columns THEN All(T)
  ELSE IF Raises(T, c) THEN All(T)
  ELSE Keep(T, [i \in 1..Len(T) |->
                  Compare(Cell(T[i], c.column), c.operator, c.value)])

\* ExcelOperations._check_condition_mask: all False when the comparison raises
check_condition_mask(T, c) ==
  IF Raises(T, c) THEN [i \in 1..Len(T) |-> FALSE]
  ELSE [i \in 1..Len(T) |-> Compare(Cell(T[i], c.column), c.operator, c.value)]

\* delete_rows that keeps the rows matching the condition
delete_rows_matching_kept(T, c) ==
  IF c.column \notin Columns THEN All(T)
  ELSE Keep(T, check_condition_mask(T, c))

\* delete_rows by condition: df[~mask]
delete_rows(T, c) ==
  IF c.column \notin Columns THEN All(T)
  ELSE Keep(T, [i \in 1..Len(T) |-> ~check_condition_mask(T, c)[i]])

\* the condition that holds exactly where c does not, where the operators
\* offer one
Negated(c) ==
  Condition(c.column,
            CASE c.operator = "==" -> "!=" [] c.operator = "!=" -> "=="
              [] c.operator = ">" -> "<=" [] c.operator = "<=" -> ">"
              [] c.operator = "<" -> ">=" [] OTHER -> "<",
            c.value)
Negatable(c) == c.operator \in {"==", "!=", ">", "<", ">=", "<="}

Conditions ==
  {Condition(col, o, val) :
     col \in Columns, o \in {"==", "!=", ">", "<", ">=", "<="},
     val \in {Str("A"), Num(2)}}
  \cup {Condition("g", "contains", Str("a")), Condition("v", "contains", Str("a")),
        Condition("g", "in", {Str("A")}), Condition("v", "in", {Num(1), Num(3)}),
        Condition("q", "==", Num(2))}

\* filter with c, delete_rows with c and delete_rows with the negation of c,
\* each applied to T through _apply_data_operations
FilterCalls ==
  {[fn |-> "filter_delete", T |-> T, c |-> c] :
     T \in TablesUpTo(MaxRows), c \in Conditions}

FilterAndDelete ==
  /\ call.fn = "filter_delete"
  /\ ~ret.done
  /\ ret' = [done |-> TRUE, ok |-> TRUE,
             filtered |-> apply_filter(call.T, call.c),
             deleted |-> delete_rows(call.T, call.c),
             deleted_neg |-> IF Negatable(call.c)
                             THEN delete_rows(call.T, Negated(call.c))
                             ELSE All(call.T)]
  /\ UNCHANGED <<xvars, gvars, call>>

\* ---- a whole operations dict on one table
Absent == [has |-> FALSE]
WithCondition(c) == [has |-> TRUE, valid |-> TRUE, c |-> c]
\* delete_rows: {} with neither row_numbers nor column and condition
DeleteWithoutFields == [has |-> TRUE, valid |-> FALSE, c |-> Condition("", "", NullCell)]
SortBy(by) == [has |-> TRUE, by |-> by]
Subtotals(group_by, function) ==
  [has |-> TRUE, group_by |-> group_by, function |-> function]

EmptySpec ==
  [remove_last_row |-> FALSE, delete_rows |-> Absent, filter |-> Absent,
   sort |-> Absent, highlight_rows |-> Absent, highlight_cells |-> Absent,
   subtotals |-> Absent, unknown_kind |-> FALSE, top_n |-> Absent,
   bottom_n |-> Absent]

\* the operators that _apply_filter has a branch for
FilterOperators == {"==", "!=", ">", "<", ">=", "<=", "contains", "in"}

Pick(T, idx) == [k \in 1..Len(idx) |-> T[idx[k]]]

\* sort keys: numbers by value, text in alphabetical order, empty cells last
KeyRank(x) ==
  CASE x.t = "num" -> x.n [] x.t = "null" -> 9 [] x.s = "A" -> 1 [] OTHER -> 2

InsertSorted(sorted, r, by) ==
  LET k == Cardinality({i \in 1..Len(sorted) :
                          KeyRank(Cell(sorted[i], by)) <= KeyRank(Cell(r, by))})
  IN SubSeq(sorted, 1, k) \o <<r>> \o SubSeq(sorted, k + 1, Len(sorted))

\* df.sort_values(by=by), rows with equal keys keeping their order
RECURSIVE sort_values(_, _)
sort_values(T, by) ==
  IF T = <<>> THEN <<>>
  ELSE InsertSorted(sort_values(SubSeq(T, 1, Len(T) - 1), by), T[Len(T)], by)

\* the data operations if remove_last_row were on unless switched off
DataOperationsRemovingLastRow(T, sp) ==
  [raised |-> FALSE, none |-> FALSE,
   T |-> IF Len(T) > 0 THEN SubSeq(T, 1, Len(T) - 1) ELSE T]

\* ExcelOperations._apply_data_operations on a table with columns. raised:
\* the KeyError of sort_values for a key that is no column, or the
\* AttributeError of a later step on the None that _apply_filter returns for
\* an operator it has no branch for; none: that None is the result
DataOperations(T, sp) ==
  LET T1 == IF sp.remove_last_row /\ Len(T) > 0 THEN SubSeq(T, 1, Len(T) - 1) ELSE T
      T2 == IF sp.delete_rows.has /\ sp.delete_rows.valid
            THEN Pick(T1, delete_rows(T1, sp.delete_rows.c)) ELSE T1
      none == /\ sp.filter.has
              /\ sp.filter.c.column \in Columns
              /\ sp.filter.c.operator \notin FilterOperators
      T3 == IF sp.filter.has /\ ~none
            THEN Pick(T2, apply_filter(T2, sp.filter.c)) ELSE T2
      T4 == IF sp.sort.has THEN sort_values(T3, sp.sort.by) ELSE T3
      T5 == IF sp.top_n.has /\ sp.top_n.n < Len(T4)
            THEN SubSeq(T4, 1, sp.top_n.n) ELSE T4
      T6 == IF sp.bottom_n.has /\ sp.bottom_n.n < Len(T5)
            THEN SubSeq(T5, Len(T5) - sp.bottom_n.n + 1, Len(T5)) ELSE T5
  IN IF none
     THEN [raised |-> sp.sort.has \/ sp.top_n.has \/ sp.bottom_n.has,
           none |-> TRUE, T |-> <<>>]
     ELSE IF sp.sort.has /\ sp.sort.by \notin Columns
     THEN [raised |-> TRUE, none |-> FALSE, T |-> T3]
     ELSE [raised |-> FALSE, none |-> FALSE, T |-> T6]

\* the row-level transforms of the three implementations:
\* ExcelOperations._apply_data_operations, and the two copies
\* _apply_operations_to_dataframe and _apply_single_operation_to_df, which
\* compare inline (an order comparison of another type raises, an operator
\* without a branch deletes and filters nothing), sort by the keys that are
\* columns and know neither top_n nor bottom_n
RowLevelOperations(impl, T, sp) ==
  IF impl = "excel_operations" THEN DataOperations(T, sp)
  ELSE
  LET Inline == {"==", "!=", "in", ">", "<", ">=", "<="}
      mask(U, c) == [i \in 1..Len(U) |->
                       Compare(Cell(U[i], c.column), c.operator, c.value)]
      T1 == IF sp.remove_last_row /\ Len(T) > 0 THEN SubSeq(T, 1, Len(T) - 1) ELSE T
      del == sp.delete_rows.has /\ sp.delete_rows.valid
             /\ sp.delete_rows.c.column \in Columns
      T2 == IF del /\ sp.delete_rows.c.operator \in Inline
            THEN Pick(T1, Keep(T1, [i \in 1..Len(T1) |-> ~mask(T1, sp.delete_rows.c)[i]]))
            ELSE T1
      flt == sp.filter.has /\ sp.filter.c.column \in Columns
      T3 == IF flt /\ sp.filter.c.operator \in Inline
            THEN Pick(T2, Keep(T2, mask(T2, sp.filter.c))) ELSE T2
      T4 == IF sp.sort.has /\ sp.sort.by \in Columns
            THEN sort_values(T3, sp.sort.by) ELSE T3
  IN IF \/ del /\ Raises(T1, sp.delete_rows.c)
        \/ flt /\ Raises(T2, sp.filter.c)
     THEN [raised |-> TRUE, none |-> FALSE, T |-> T1]
     ELSE [raised |-> FALSE, none |-> FALSE, T |-> T4]

\* ExcelOperations._check_condition on one cell value
check_condition(x, operator, y) ==
  CASE x.t = "null" -> FALSE
    [] operator = "==" -> x = y
    [] operator = "!=" -> x # y
    [] x.t # "num" \/ y.t # "num" -> FALSE
    [] operator = ">" -> x.n > y.n
    [] operator = "<" -> x.n < y.n
    [] operator = ">=" -> x.n >= y.n
    [] operator = "<=" -> x.n <= y.n
    [] OTHER -> FALSE

\* position of row i when the rows are ordered by falling or rising value of
\* the column, the first of equal values first
Position(T, column, i, ascending) ==
  Cardinality({j \in 1..Len(T) :
                 \/ ascending /\ Cell(T[j], column).n < Cell(T[i], column).n
                 \/ ~ascending /\ Cell(T[j], column).n > Cell(T[i], column).n
                 \/ Cell(T[j], column) = Cell(T[i], column) /\ j < i})

\* df.nsmallest(n, column)[column].values
nsmallest(T, n, column) ==
  {Cell(T[i], column) : i \in {k \in 1..Len(T) : Position(T, column, k, TRUE) < n}}

\* the values taken from the wrong end of the order
nlargest_rising(T, n, column) == nsmallest(T, n, column)

\* df.nlargest(n, column)[column].values
nlargest(T, n, column) ==
  {Cell(T[i], column) : i \in {k \in 1..Len(T) : Position(T, column, k, FALSE) < n}}

\* nlargest and nsmallest raise TypeError on a column of dtype object
NumericColumn(column) == column = "v"

\* the rows that _highlight_rows and _highlight_cells give the fill: none for
\* an unknown column or after an exception, the rows whose value is among
\* top_values for topN and bottomN, else the rows that _check_condition accepts
highlighted(T, hl) ==
  IF ~hl.has \/ hl.c.column \notin Columns THEN [i \in 1..Len(T) |-> FALSE]
  ELSE IF hl.c.operator \in {"topN", "bottomN"}
  THEN IF ~NumericColumn(hl.c.column) THEN [i \in 1..Len(T) |-> FALSE]
       ELSE LET top_values == IF hl.c.operator = "topN"
                              THEN nlargest(T, hl.c.value.n, hl.c.column)
                              ELSE nsmallest(T, hl.c.value.n, hl.c.column)
            IN [i \in 1..Len(T) |-> Cell(T[i], hl.c.column) \in top_values]
  ELSE [i \in 1..Len(T) |->
          check_condition(Cell(T[i], hl.c.column), hl.c.operator, hl.c.value)]

\* ExcelOperations._highlight_rows: every cell of a highlighted row is filled
highlight_rows(T, hl) ==
  [i \in 1..Len(T) |-> [column \in Columns |-> highlighted(T, hl)[i]]]

\* ExcelOperations._highlight_cells: the cell of the column is filled
highlight_cells(T, hl) ==
  [i \in 1..Len(T) |->
     [column \in Columns |-> highlighted(T, hl)[i] /\ column = hl.c.column]]

\* ExcelOperations.create_excel_with_operations: data operations, the sheet
\* written row by row, highlights, subtotals; an exception of the data
\* operations is raised to the caller
create_excel(T, sp) ==
  LET d == DataOperations(T, sp) IN
  IF d.raised \/ d.none THEN [done |-> TRUE, ok |-> FALSE]
  ELSE [done |-> TRUE, ok |-> TRUE, table |-> d.T,
        fills |-> [i \in 1..Len(d.T) |-> [column \in Columns |->
                     \/ highlight_rows(d.T, sp.highlight_rows)[i][column]
                     \/ highlight_cells(d.T, sp.highlight_cells)[i][column]]],
        sheet |-> IF sp.subtotals.has /\ sp.subtotals.group_by \in Columns
                  THEN apply_subtotals(d.T, "excel_operations", sp.subtotals.function)
                  ELSE [i \in 1..Len(d.T) |-> DataRow(d.T[i])]]

\* ExcelOperations.apply_operations_to_google_sheet up to the prepared
\* operations: processed_df[column] raises KeyError for a column that is none
prepare_google_sheets_operations(T, sp) ==
  LET d == DataOperations(T, sp) IN
  IF d.raised \/ d.none THEN [done |-> TRUE, ok |-> FALSE]
  ELSE IF sp.highlight_rows.has /\ sp.highlight_rows.c.column \notin Columns
       THEN [done |-> TRUE, ok |-> FALSE]
       ELSE [done |-> TRUE, ok |-> TRUE, table |-> d.T,
             row_indices |->
               IF sp.highlight_rows.has
               THEN Keep(d.T, check_condition_mask(d.T, sp.highlight_rows.c))
               ELSE <<>>]

UnknownColumn == "q"
Present(sp) ==
  Cardinality({k \in {"delete_rows", "filter", "sort", "highlight_rows", "subtotals"} :
                 sp[k].has})
  + (IF sp.remove_last_row THEN 1 ELSE 0) + (IF sp.unknown_kind THEN 1 ELSE 0)

\* operations dicts of at most two operations, with known and unknown columns
OperationSpecs ==
  {sp \in [remove_last_row : BOOLEAN,
           delete_rows : {Absent, DeleteWithoutFields,
                          WithCondition(Condition("g", "==", Str("A"))),
                          WithCondition(Condition(UnknownColumn, "==", Num(2)))},
           filter : {Absent, WithCondition(Condition("v", ">", Num(1))),
                     WithCondition(Condition(UnknownColumn, "==", Num(2)))},
           sort : {Absent, SortBy("v"), SortBy(UnknownColumn)},
           highlight_rows : {Absent, WithCondition(Condition("v", "==", Num(2))),
                             WithCondition(Condition(UnknownColumn, "==", Num(2)))},
           highlight_cells : {Absent},
           subtotals : {Absent, Subtotals("g", "COUNT"), Subtotals(UnknownColumn, "COUNT"),
                        Subtotals("", "COUNT")},
           unknown_kind : BOOLEAN, top_n : {Absent}, bottom_n : {Absent}] :
     Present(sp) <= 2}

\* operations dicts of one highlight with topN or bottomN
TopNSpecs ==
  {[EmptySpec EXCEPT ![k] = WithCondition(Condition(column, operator, Num(n)))] :
     k \in {"highlight_rows", "highlight_cells"}, column \in Columns,
     operator \in {"topN", "bottomN"}, n \in 0..MaxRows}

CreateCalls ==
  [fn : {"create_excel", "google_sheet"},
   T : TablesOver(GVals, {1, 2}, MaxRows), sp : OperationSpecs]
  \cup [fn : {"create_excel"}, T : TablesOver({"A"}, VVals, MaxRows), sp : TopNSpecs]
  \cup [fn : {"create_excel"}, T : TablesOver(GVals, {1, 2}, MaxRows),
        sp : {[EmptySpec EXCEPT !.filter = WithCondition(c)] :
                c \in Conditions
                      \cup {Condition("g", "is_null", NullCell),
                            Condition("v", "topN", Num(2)),
                            Condition("v", "bottomN", Num(2)),
                            Condition("g", "date_in_month", Str("A")),
                            Condition("g", "date_in_previous_month", NullCell)}}]

CreateExcelWithOperations ==
  /\ call.fn = "create_excel"
  /\ ~ret.done
  /\ ret' = create_excel(call.T, call.sp)
  /\ UNCHANGED <<xvars, gvars, call>>

ApplyOperationsToGoogleSheet ==
  /\ call.fn = "google_sheet"
  /\ ~ret.done
  /\ ret' = prepare_google_sheets_operations(call.T, call.sp)
  /\ UNCHANGED <<xvars, gvars, call>>

\* operations dicts of row-level kinds only, each present or not
RowLevelSpecs ==
  {[EmptySpec EXCEPT !.remove_last_row = rlr, !.delete_rows = del, !.filter = flt,
                     !.sort = srt, !.top_n = top, !.bottom_n = bot] :
     rlr \in BOOLEAN,
     del \in {Absent, WithCondition(Condition("g", "==", Str("A"))),
              WithCondition(Condition("g", "contains", Str("a")))},
     flt \in {Absent, WithCondition(Condition("v", ">", Num(1))),
              WithCondition(Condition("g", "contains", Str("b"))),
              WithCondition(Condition("g", ">", Num(1)))},
     srt \in {Absent, SortBy("v")},
     top \in {Absent, [has |-> TRUE, n |-> 2]},
     bot \in {Absent, [has |-> TRUE, n |-> 1]}}

\* one operations dict through each of the three implementations
ApplyRowLevel ==
  /\ call.fn = "row_level"
  /\ ~ret.done
  /\ ret' = [done |-> TRUE,
             by_impl |-> [impl \in Impls |->
                            RowLevelOperations(impl, call.T, call.sp)]]
  /\ UNCHANGED <<xvars, gvars, call>>

\* ---- lists of coloured conditions on column v
\* rules of one conditional_format, or the entries of a highlight_rows list
ColourRules ==
  LET one == {[c |-> Condition("v", ">", Num(1)), color |-> "red"],
              [c |-> Condition("v", "==", Num(2)), color |-> "green"],
              [c |-> Condition("v", "<", Num(3)), color |-> "yellow"]}
  IN UNION {[1..k -> one] : k \in 0..2}

\* the fill of each cell of the column after conditional_format:
\* ExcelOperations._apply_conditional_formatting goes cell by cell and
\* breaks at the first matching rule; _apply_conditional_format_to_sheet and
\* _apply_formatting_operations_to_multi_sheet go rule by rule and fill every
\* matching cell, so a later rule writes over an earlier one
conditional_format(impl, T, rules) ==
  [i \in 1..Len(T) |->
     LET matching == {k \in 1..Len(rules) :
                        check_condition(Cell(T[i], "v"), rules[k].c.operator,
                                        rules[k].c.value)}
         pick == IF impl = "excel_operations"
                 THEN CHOOSE k \in matching : \A m \in matching : k <= m
                 ELSE CHOOSE k \in matching : \A m \in matching : k >= m
     IN IF matching = {} THEN "none" ELSE rules[pick].color]

ApplyConditionalFormat ==
  /\ call.fn = "conditional_format"
  /\ ~ret.done
  /\ ret' = [done |-> TRUE,
             fills |-> [impl \in Impls |->
                          conditional_format(impl, call.T, call.rules)]]
  /\ UNCHANGED <<xvars, gvars, call>>

\* the fill of each row after a highlight_rows list. Excel path:
\* _apply_formatting_operations runs _highlight_rows for every entry in
\* turn. Google-Sheets path: _prepare_google_sheets_operations assigns
\* gs_ops['highlight_rows'] in every turn of its loop, so the prepared
\* operations hold the colour and row_indices of the last entry
highlight_list(path, T, specs) ==
  [i \in 1..Len(T) |->
     LET applied == IF path = "excel" THEN 1..Len(specs)
                    ELSE {k \in 1..Len(specs) : k = Len(specs)}
         matching == {k \in applied :
                        IF path = "excel"
                        THEN highlighted(T, WithCondition(specs[k].c))[i]
                        ELSE check_condition_mask(T, specs[k].c)[i]}
     IN IF matching = {} THEN "none"
        ELSE specs[CHOOSE k \in matching : \A m \in matching : k >= m].color]

ApplyHighlightList ==
  /\ call.fn = "highlight_list"
  /\ ~ret.done
  /\ ret' = [done |-> TRUE,
             fills |-> [path \in {"excel", "google_sheet"} |->
                          highlight_list(path, call.T, call.rules)]]
  /\ UNCHANGED <<xvars, gvars, call>>

\* ---- subtotals and highlight_rows in one request on a sheet of a workbook
\* FullDataAgent._apply_formatting_to_multi_sheet_file on the target sheet:
\* the subtotal rows are inserted first (its own copy of the routine, with
\* tracked start rows and the word Count), then highlight_rows walks the
\* DataFrame and fills sheet row index + 2, the header being row 1; fills
\* holds, per row of the sheet below the header, whether it is filled
formatting_to_multi_sheet_file(T, subtotals, value) ==
  LET sheet == IF subtotals THEN apply_subtotals(T, "multi_sheet_handler", "COUNT")
               ELSE [i \in 1..Len(T) |-> DataRow(T[i])]
  IN [done |-> TRUE, sheet |-> sheet,
      fills |-> [p \in 1..Len(sheet) |-> p <= Len(T) /\ T[p].v = value]]

FormatTargetSheet ==
  /\ call.fn = "format_sheet"
  /\ ~ret.done
  /\ ret' = formatting_to_multi_sheet_file(call.T, call.subtotals, call.value)
  /\ UNCHANGED <<xvars, gvars, call>>

\* ---- the filter control of a produced sheet
\* rows: the rows of the final sheet, header included; filter: the last row
\* of auto_filter.ref, 0 when the apply attaches none. From scratch
\* (create_excel_with_operations) and in the multi-sheet handler the ref is
\* ws.dimensions before the subtotal rows are inserted, and only unless
\* auto_filter is false; on an operations list
\* (_apply_formatting_operations_to_multi_sheet) it is set whatever the
\* operations say; the two multi-sheet paths set it only when the sheet has a
\* data row; _create_excel_preserving_format sets none
auto_filter(path, T, on, subtotals) ==
  LET impl == CASE path = "multi_sheet" -> "multi_sheet_handler"
                [] path = "operations_list" -> "full_data_agent"
                [] OTHER -> "excel_operations"
      sheet == IF subtotals THEN apply_subtotals(T, impl, "COUNT")
               ELSE [i \in 1..Len(T) |-> DataRow(T[i])]
  IN [done |-> TRUE, rows |-> 1 + Len(sheet),
      filter |-> CASE path = "scratch" -> IF on THEN 1 + Len(T) ELSE 0
                   [] path = "preserving" -> 0
                   [] path = "multi_sheet" -> IF on /\ Len(T) > 0 THEN 1 + Len(T) ELSE 0
                   [] OTHER -> IF Len(T) > 0 THEN 1 + Len(T) ELSE 0]

ApplyAutoFilter ==
  /\ call.fn = "auto_filter"
  /\ ~ret.done
  /\ ret' = auto_filter(call.path, call.T, call.on, call.subtotals)
  /\ UNCHANGED <<xvars, gvars, call>>

\* ---- sheet names given in a merge request
\* A name is a sequence of characters; lower() folds "A" to "a". A file name
\* is written without its extension, which both implementations strip.

\* the normalised name of the sheet is part of the normalised file name, or
\* the other way round
name_matches(sheet_name, filename) ==
  LET lower(n) == [i \in DOMAIN n |-> IF n[i] = "A" THEN "a" ELSE n[i]]
      part(a, b) == \E k \in 0..(Len(b) - Len(a)) : SubSeq(b, k + 1, k + Len(a)) = a
  IN part(lower(sheet_name), lower(filename)) \/ part(lower(filename), lower(sheet_name))

\* the Excel merge: the sheet name of every uploaded file
sheet_name_mapping(files_in, custom_sheet_names) ==
  LET first(av, f) ==
        IF \E k \in 1..Len(av) : name_matches(av[k], f)
        THEN CHOOSE k \in 1..Len(av) :
               /\ name_matches(av[k], f)
               /\ \A j \in 1..(k - 1) : ~name_matches(av[j], f)
        ELSE 0
      remove(av, k) == SubSeq(av, 1, k - 1) \o SubSeq(av, k + 1, Len(av))
      RECURSIVE go(_, _)
      go(i, available_sheet_names) ==
        IF i > Len(files_in) THEN <<>>
        ELSE LET k == first(available_sheet_names, files_in[i]) IN
             IF k # 0
             THEN <<available_sheet_names[k]>> \o go(i + 1, remove(available_sheet_names, k))
             ELSE IF Len(available_sheet_names) > 0
             THEN <<available_sheet_names[1]>> \o go(i + 1, Tail(available_sheet_names))
             ELSE <<files_in[i]>> \o go(i + 1, available_sheet_names)
  IN IF Len(custom_sheet_names) = 0 \/ Len(custom_sheet_names) # Len(files_in)
     THEN files_in
     ELSE go(1, custom_sheet_names)

\* the Google-Sheets merge: the titles of the sheets created, one per source
sheets_created(sources, sheet_names) ==
  LET member(n, q) == \E j \in 1..Len(q) : q[j] = n
      digit == <<"1", "2", "3">>
      unique(n, created) ==
        IF ~member(n, created) THEN n
        ELSE LET c == CHOOSE c \in 1..Len(digit) :
                        /\ ~member(n \o <<"_", digit[c]>>, created)
                        /\ \A d \in 1..(c - 1) : member(n \o <<"_", digit[d]>>, created)
             IN n \o <<"_", digit[c]>>
      RECURSIVE go(_, _, _)
      go(idx, used_sheet_names, created) ==
        IF idx > Len(sources) THEN created
        ELSE LET unused == SelectSeq(sheet_names, LAMBDA n : ~member(n, used_sheet_names))
                 matching == SelectSeq(unused, LAMBDA n : name_matches(n, sources[idx]))
                 sheet_name == IF Len(matching) > 0 THEN matching[1]
                               ELSE IF Len(unused) > 0 THEN unused[1]
                               ELSE sources[idx]
                 used == IF Len(unused) > 0 THEN Append(used_sheet_names, sheet_name)
                         ELSE used_sheet_names
             IN go(idx + 1, used, Append(created, unique(sheet_name, created)))
  IN go(1, <<>>, <<>>)

AssignSheetNames ==
  /\ call.fn = "sheet_names"
  /\ ~ret.done
  /\ ret' = [done |-> TRUE,
             names |-> IF call.path = "excel"
                       THEN sheet_name_mapping(call.files, call.sheet_names)
                       ELSE sheets_created(call.files, call.sheet_names)]
  /\ UNCHANGED <<xvars, gvars, call>>

Calls ==
  SubtotalCalls \cup FilterCalls \cup CreateCalls
  \cup [fn : {"row_level"}, T : TablesOver({"A", "B"}, {1, 2}, MaxRows),
        sp : RowLevelSpecs]
  \cup [fn : {"conditional_format", "highlight_list"},
        T : TablesOver({"A"}, VVals, MaxRows), rules : ColourRules]
  \cup [fn : {"format_sheet"}, T : TablesOver({"A", "B"}, {1, 2}, MaxRows),
        subtotals : BOOLEAN, value : {1, 2}]
  \cup [fn : {"auto_filter"},
        path : {"scratch", "preserving", "multi_sheet", "operations_list"},
        T : TablesOver({"A", "B"}, {1}, MaxRows), on : BOOLEAN, subtotals : BOOLEAN]
  \cup [fn : {"sheet_names"}, path : {"excel", "google_sheet"},
        files : LET F == {<<"a">>, <<"b">>, <<"a", "b">>}
                IN UNION {[1..n -> F] : n \in 2..3},
        sheet_names : LET D == {<<"A">>, <<"b", "a">>, <<"c">>}
                      IN {q \in UNION {[1..n -> D] : n \in 0..3} :
                            \A i, j \in 1..Len(q) : i # j => q[i] # q[j]}]

InitOps ==
  /\ InitSessions
  /\ call \in Calls
  /\ ret = Pending

NextOps ==
  \/ ApplySubtotals
  \/ FilterAndDelete
  \/ CreateExcelWithOperations
  \/ ApplyOperationsToGoogleSheet
  \/ ApplyRowLevel
  \/ ApplyConditionalFormat
  \/ ApplyHighlightList
  \/ FormatTargetSheet
  \/ ApplyAutoFilter
  \/ AssignSheetNames

SpecOps == InitOps /\ [][NextOps]_vars

\* ------------------------------------------------------------- properties
Applies == {"single", "multi", "merge", "rename"}
ReqOps == IF req.kind = "single" THEN <<req.op>> ELSE req.ops
OutBook == disk[res.file]
LastBook == pre.disk[pre.last.path]
Continues ==
  req.signal = "last_generated" /\ pre.last.some /\ pre.last.path \in DOMAIN pre.disk
Produced == res.success /\ res.file # NoPath
CosmeticOnly(op) == op.hl # 0 /\ ~op.rlr /\ op.filter = 0
Matches(name, target) == Lower(name) = Lower(target)

\* the tables an operations list can leave of a table: each element either
\* routed to it or not, in list order
RECURSIVE Outcomes(_, _)
Outcomes(df, ops) ==
  IF ops = <<>> THEN {df}
  ELSE Outcomes(df, Tail(ops))
       \cup Outcomes(apply_data_operations(df, Head(ops)), Tail(ops))

\* the tables of the uploaded workbooks, and their concatenation
OriginalTables ==
  UNION {{Values(disk[p][i].rows) : i \in 1..Len(disk[p])} :
           p \in {q \in DOMAIN disk : q.pre \in UploadNames \cup {"M.xlsx"}}}
  \cup {pre.combined.df}

\* the sheets a request is routed against: those of the last generated
\* artifact on continue, the session's stored sheets otherwise
RoutedBase ==
  IF Continues THEN ReadAllSheets(LastBook)
  ELSE [i \in 1..Len(SessionSheets(pre.files)) |->
          [sheet_name |-> SessionSheets(pre.files)[i].sheet_name,
           df |-> SessionSheets(pre.files)[i].df]]

\* C1: an apply that returns failure leaves last_generated_file,
\* generated_files_history and the stored tables as they were before it
C1_AllOrNothing ==
  (req.kind \in Applies /\ ~res.success) =>
    /\ files = pre.files
    /\ last_generated_file = pre.last
    /\ generated_files_history = pre.history

\* C2: after an apply that returns success with a workbook,
\* last_generated_file refers to exactly that workbook
C2_ChainReplaced ==
  (req.kind \in Applies /\ Produced) =>
    last_generated_file.some /\ last_generated_file.path = res.file

\* C3: on continue with a last generated artifact, every table of the new
\* artifact is the new spec applied (or not routed) to the table at the same
\* place of that artifact; without one, to an uploaded table
C3_ContinueBase ==
  (req.kind \in {"single", "multi"} /\ ~req.merge /\ Produced
     /\ req.signal = "last_generated") =>
    IF pre.last.some
    THEN /\ Len(OutBook) = Len(LastBook)
         /\ \A i \in 1..Len(OutBook) :
              Values(OutBook[i].rows) \in Outcomes(Values(LastBook[i].rows), ReqOps)
    ELSE \A i \in 1..Len(OutBook) : \E u \in OriginalTables :
           Values(OutBook[i].rows) \in Outcomes(u, ReqOps)

\* C4: on restart the new artifact holds uploaded tables with the new spec
\* applied and no style other than the one the new spec sets
C4_RestartBase ==
  (req.kind = "single" /\ req.signal = "original_files" /\ Produced) =>
    \A i \in 1..Len(OutBook) :
      /\ \E u \in OriginalTables : Values(OutBook[i].rows) \in Outcomes(u, ReqOps)
      /\ \A r \in 1..Len(OutBook[i].rows) :
           OutBook[i].rows[r].fill # "none" =>
             (req.op.hl # 0 /\ OutBook[i].rows[r].v = req.op.hl)

\* C5: a cosmetic-only spec chained onto the last artifact keeps every
\* value, and the style of every cell the new operation does not target
C5_CosmeticKeepsStyle ==
  (req.kind = "single" /\ Continues /\ CosmeticOnly(req.op) /\ Produced) =>
    /\ Len(OutBook) = Len(LastBook)
    /\ \A i \in 1..Len(OutBook) :
         /\ Len(OutBook[i].rows) = Len(LastBook[i].rows)
         /\ \A r \in 1..Len(OutBook[i].rows) :
              /\ OutBook[i].rows[r].v = LastBook[i].rows[r].v
              /\ \/ OutBook[i].rows[r].fill = LastBook[i].rows[r].fill
                 \/ OutBook[i].rows[r].v = req.op.hl

\* C6: with neither target_sheet nor apply_to_all_sheets and a base of
\* several sheets, a row-level or cosmetic operation reaches every sheet
C6_DefaultAllSheets ==
  /\ (req.kind = "single" /\ Continues /\ Len(LastBook) > 1 /\ Produced
        /\ req.op.target = "" /\ ~req.op.all) =>
       \A i \in 1..Len(OutBook) :
         /\ i <= Len(LastBook)
         /\ Values(OutBook[i].rows) =
              apply_data_operations(Values(LastBook[i].rows), req.op)
         /\ \A r \in 1..Len(OutBook[i].rows) :
              (req.op.hl # 0 /\ OutBook[i].rows[r].v = req.op.hl) =>
                OutBook[i].rows[r].fill = "yellow"
  /\ (req.kind = "multi" /\ Produced /\ Len(OutBook) > 1) =>
       \A k \in 1..Len(req.ops) :
         (req.ops[k].hl # 0 /\ req.ops[k].target = "" /\ ~req.ops[k].all) =>
           \A i \in 1..Len(OutBook) : \A r \in 1..Len(OutBook[i].rows) :
             OutBook[i].rows[r].v = req.ops[k].hl =>
               OutBook[i].rows[r].fill = "yellow"

\* C7: with target_sheet the operation reaches the sheet of that name,
\* letter case ignored, row-level or cosmetic, and no other sheet changes
C7_TargetRouting ==
  (req.kind = "single" /\ req.op.target # "" /\ Len(RoutedBase) > 1
     /\ \E i \in 1..Len(RoutedBase) : Matches(RoutedBase[i].sheet_name, req.op.target)) =>
    /\ Produced
    /\ Len(OutBook) = Len(RoutedBase)
    /\ \A i \in 1..Len(OutBook) :
         IF Matches(RoutedBase[i].sheet_name, req.op.target)
         THEN /\ Values(OutBook[i].rows) =
                   apply_data_operations(RoutedBase[i].df, req.op)
              /\ \A r \in 1..Len(OutBook[i].rows) :
                   (req.op.hl # 0 /\ OutBook[i].rows[r].v = req.op.hl) =>
                     OutBook[i].rows[r].fill = "yellow"
         ELSE Values(OutBook[i].rows) = RoutedBase[i].df

\* C8: a target_sheet that matches no sheet does not fail the apply: a
\* workbook is produced and the response records the sheet as not found
C8_MissingTargetNonFatal ==
  (/\ req.kind \in {"single", "multi"}
   /\ Len(RoutedBase) >= 1
   /\ \E k \in 1..Len(ReqOps) :
        /\ ReqOps[k].target # ""
        /\ \A i \in 1..Len(RoutedBase) :
             ~Matches(RoutedBase[i].sheet_name, ReqOps[k].target)
   /\ ~req.ioFail) =>
    Produced /\ res.note = "sheet_not_found"

\* C9: the table an operations list leaves is the fold of its elements in
\* list order
C9_ListOrder ==
  \A s \in Sessions :
    (gs_pc[s] # "idle" /\ gs_local[s].list) =>
      gs_local[s].processed = FoldSingle(gs_local[s].df, gs_local[s].ops)

\* C10: whatever the interleaving of two sessions' applies, each session
\* holds the stored tables it would hold had its apply run alone
C10_SessionIndependence ==
  \A s \in Sessions : gs_files[s] = gs_alone[s]

\* C11: a successful apply writes its workbook to a path no earlier workbook
\* was written to, and leaves every earlier workbook file as it was
C11_UniqueImmutable ==
  (req.kind \in Applies /\ Produced) =>
    /\ res.file \notin DOMAIN pre.disk
    /\ \A p \in DOMAIN pre.disk : disk[p] = pre.disk[p]

\* rows with the same g value are adjacent (the table is pre-sorted by g)
Contiguous(T) ==
  \A i, j, k \in 1..Len(T) : (i < j /\ j < k /\ T[i].g = T[k].g) => T[j].g = T[i].g
GroupValues(T) == {T[i].g : i \in 1..Len(T)}
GroupRows(T, name) == SelectSeq(T, LAMBDA r : r.g = name)
FunctionWord(function) ==
  CASE function = "COUNT" -> "Count" [] function = "SUM" -> "Sum" [] OTHER -> "Average"

\* the sheet with one labelled row after the last row of each group
RECURSIVE ExpectedSubtotals(_, _, _)
ExpectedSubtotals(T, function, i) ==
  IF i > Len(T) THEN <<>>
  ELSE <<DataRow(T[i])>>
       \o (IF i = Len(T) \/ T[i + 1].g # T[i].g
           THEN <<[kind |-> "subtotal", g |-> T[i].g, word |-> FunctionWord(function),
                   v |-> calculated_value(GroupRows(T, T[i].g), function, 1,
                                          Len(GroupRows(T, T[i].g)))]>>
           ELSE <<>>)
       \o ExpectedSubtotals(T, function, i + 1)

\* C16: on a table pre-sorted by g with n distinct g values (an empty value
\* counts as one), each subtotal routine leaves rows(T) + n rows
C16_SubtotalRowCount ==
  (call.fn = "subtotals" /\ ret.done /\ Contiguous(call.T)) =>
    Len(ret.sheet) = Len(call.T) + Cardinality(GroupValues(call.T))

\* C17: after the last row of each group stands exactly one inserted row,
\* labelled "<group> Count|Sum|Average" by the function asked for, holding the
\* aggregate over that group's rows only; data rows keep their order
C17_SubtotalPlacement ==
  (call.fn = "subtotals" /\ ret.done /\ Contiguous(call.T)) =>
    ret.sheet = ExpectedSubtotals(call.T, call.function, 1)

Range(q) == {q[i] : i \in 1..Len(q)}
Complementary(T, a, b) ==
  Len(a) + Len(b) = Len(T) /\ Range(a) \cap Range(b) = {}

Conditional == {"delete_rows", "filter", "highlight_rows"}
NamesUnknownColumn(sp) ==
  \/ \E k \in Conditional :
       sp[k].has /\ sp[k].c.column = UnknownColumn
  \/ sp.sort.has /\ sp.sort.by = UnknownColumn
  \/ sp.subtotals.has /\ sp.subtotals.group_by = UnknownColumn

\* the operations dict without the operations that name the unknown column
WithoutUnknownColumn(sp) ==
  [k \in DOMAIN sp |->
     CASE k \in Conditional ->
            IF sp[k].has /\ sp[k].c.column = UnknownColumn THEN Absent ELSE sp[k]
       [] k = "sort" ->
            IF sp[k].has /\ sp[k].by = UnknownColumn THEN Absent ELSE sp[k]
       [] k = "subtotals" ->
            IF sp[k].has /\ sp[k].group_by = UnknownColumn THEN Absent ELSE sp[k]
       [] OTHER -> sp[k]]

Applied(fn, T, sp) ==
  IF fn = "create_excel" THEN create_excel(T, sp)
  ELSE prepare_google_sheets_operations(T, sp)

\* C12: an operation that names a column the table does not have is never
\* fatal, on the Excel path and on the Google-Sheets preparation path: the
\* apply succeeds and its result is the result of the same operations dict
\* without the operations that name the unknown column
C12_UnknownColumnSkipped ==
  (call.fn \in {"create_excel", "google_sheet"} /\ ret.done
     /\ NamesUnknownColumn(call.sp)) =>
    /\ ret.ok
    /\ ret = Applied(call.fn, call.T, WithoutUnknownColumn(call.sp))

Invalid(sp) ==
  \/ sp.unknown_kind
  \/ sp.delete_rows.has /\ ~sp.delete_rows.valid
  \/ sp.subtotals.has /\ sp.subtotals.group_by = ""

\* C13: an operations dict with an unknown operation kind, or with an
\* operation that lacks a required field (delete_rows with neither
\* row_numbers nor column and condition, subtotals without group_by), is
\* rejected as a whole: no artifact is produced
C13_InvalidSpecRejected ==
  (call.fn = "create_excel" /\ ret.done /\ Invalid(call.sp)) => ~ret.ok

\* C19: the empty operations dict is a no-op on data: the output table has
\* the rows of the input table, with the same values, in the same order, the
\* sheet holds exactly these rows and no row is filled
C19_EmptySpecNoOp ==
  (call.fn = "create_excel" /\ ret.done /\ call.sp = EmptySpec) =>
    /\ ret.ok
    /\ ret.table = call.T
    /\ ret.sheet = [i \in 1..Len(call.T) |-> DataRow(call.T[i])]
    /\ \A i \in 1..Len(call.T), column \in Columns : ~ret.fills[i][column]

C19_Witness ==
  /\ call.fn = "create_excel"
  /\ ret.done
  /\ call.sp = EmptySpec
  /\ Len(call.T) >= 2
  /\ call.T[1] # call.T[2]

\* ---- topN and bottomN highlights

TopNCall ==
  /\ call.fn = "create_excel"
  /\ ret.done
  /\ call.sp \in TopNSpecs
Highlight ==
  IF call.sp.highlight_rows.has THEN call.sp.highlight_rows.c
  ELSE call.sp.highlight_cells.c
\* the value of row i is one of the values of the N largest rows exactly when
\* fewer than N rows hold a larger value, and likewise for the smallest
AmongExtremeValues(T, i, hl) ==
  Cardinality({j \in 1..Len(T) :
                 IF hl.operator = "topN" THEN T[j].v > T[i].v
                 ELSE T[j].v < T[i].v}) < hl.value.n

MergeInputs ==
  (IF pre.last.some /\ Len(pre.files) = 1 /\ req.signal = "last_generated"
      /\ pre.last.path \in DOMAIN pre.disk
   THEN ReadAllSheets(pre.disk[pre.last.path]) ELSE <<>>)
  \o [i \in 1..Len(pre.files) |->
        [sheet_name |-> StripExt(pre.files[i].filename), df |-> pre.files[i].df]]

Distinct(q) == \A i, j \in 1..Len(q) : i # j => q[i] # q[j]
BookNames(wb) == [i \in 1..Len(wb) |-> wb[i].name]

\* C14: in every workbook that merge_files or rename_tabs produces the sheet
\* names are pairwise distinct, and inputs of a merge that would get the same
\* sheet name both have a sheet in the workbook, the later one under a
\* suffixed name
C14_SheetNames ==
  (res.success /\ req.kind \in {"merge", "rename"}) =>
    /\ Distinct(BookNames(disk[res.file]))
    /\ req.kind = "merge" => Len(disk[res.file]) = Len(MergeInputs)

\* C18: merging k >= 2 tables whose names do not collide yields a workbook
\* of exactly k sheets, one per input table in input order, each of
\* rows(input)+1 rows: the header and every input row, unchanged
C18_MergeSheets ==
  (res.success /\ req.kind = "merge" /\ Len(MergeInputs) >= 2
     /\ Distinct(SheetNames(MergeInputs))) =>
    LET wb == disk[res.file] IN
    /\ Len(wb) = Len(MergeInputs)
    /\ \A i \in 1..Len(wb) :
         /\ wb[i].name = MergeInputs[i].sheet_name
         /\ Values(wb[i].rows) = MergeInputs[i].df
         /\ written_rows(wb[i]) = Len(MergeInputs[i].df) + 1

C18_Witness ==
  /\ res.success
  /\ req.kind = "merge"
  /\ Len(MergeInputs) >= 2
  /\ Distinct(SheetNames(MergeInputs))
  /\ MergeInputs[1].df # MergeInputs[2].df

\* ---- the row-level kinds in the three implementations

RowLevelCall == call.fn = "row_level" /\ ret.done

\* one kind of the operations dict applied alone
Step(T, sp, k) == DataOperations(T, [EmptySpec EXCEPT ![k] = sp[k]]).T

\* remove_last_row, delete_rows, filter, sort, top_n, bottom_n, each that is
\* present applied to the result of the one before
InOrder(T, sp) ==
  Step(Step(Step(Step(Step(Step(T, sp, "remove_last_row"), sp, "delete_rows"),
                      sp, "filter"), sp, "sort"), sp, "top_n"), sp, "bottom_n")

\* C21: in each of the three implementations the row-level kinds of one
\* operations dict are applied in the order remove_last_row, delete_rows,
\* filter, sort, top_n, bottom_n, and every kind that is present is applied
C21_FixedRowLevelOrder ==
  RowLevelCall =>
    \A impl \in Impls :
      /\ ~ret.by_impl[impl].raised
      /\ ret.by_impl[impl].T = InOrder(call.T, call.sp)

\* C29: the three implementations of the row-level transforms return the
\* same rows in the same order for every table and operations dict
C29_ImplementationsAgree ==
  RowLevelCall =>
    \A a, b \in Impls : ret.by_impl[a] = ret.by_impl[b]

\* ---- filter over the operators of a condition

OnlyFilter(sp) == sp.filter.has /\ [sp EXCEPT !.filter = Absent] = EmptySpec
RowMatches(r, c) ==
  IF c.operator = "is_null" THEN Cell(r, c.column).t = "null"
  ELSE Compare(Cell(r, c.column), c.operator, c.value)

\* C28: for every table, existing column and operator of the condition set,
\* filter never makes the apply fail and never returns a non-table, and the
\* table it returns holds exactly the rows that match, in their order
C28_FilterTotal ==
  (call.fn = "create_excel" /\ ret.done /\ OnlyFilter(call.sp)
     /\ call.sp.filter.c.column \in Columns) =>
    /\ ret.ok
    /\ call.sp.filter.c.operator \in FilterOperators \cup {"is_null"} =>
         ret.table = SelectSeq(call.T, LAMBDA r : RowMatches(r, call.sp.filter.c))

\* ---- lists of rules and of highlights

Satisfies(r, rule) == check_condition(Cell(r, "v"), rule.c.operator, rule.c.value)
Satisfied(r, rules) == {k \in 1..Len(rules) : Satisfies(r, rules[k])}

\* C24: on each of the three paths the fill of a cell after conditional_format
\* is the colour of the first rule, in list order, that the cell's value
\* satisfies, and a cell that satisfies no rule is left as it was
C24_FirstRuleWins ==
  (call.fn = "conditional_format" /\ ret.done) =>
    \A impl \in Impls, i \in 1..Len(call.T) :
      LET m == Satisfied(call.T[i], call.rules) IN
      IF m = {} THEN ret.fills[impl][i] = "none"
      ELSE \E k \in m :
             /\ \A j \in m : k <= j
             /\ ret.fills[impl][i] = call.rules[k].color

\* C25: every entry of a highlight_rows list is applied, in list order, on
\* the Excel path and in what is prepared for Google Sheets: a row ends with
\* the colour of the last entry that matches it, a row that only an earlier
\* entry matches keeps that entry's colour
C25_EveryEntryLastWins ==
  (call.fn = "highlight_list" /\ ret.done) =>
    \A path \in {"excel", "google_sheet"}, i \in 1..Len(call.T) :
      LET m == Satisfied(call.T[i], call.rules) IN
      IF m = {} THEN ret.fills[path][i] = "none"
      ELSE \E k \in m :
             /\ \A j \in m : k >= j
             /\ ret.fills[path][i] = call.rules[k].color

\* ---- highlights next to inserted rows

\* C22: in the final sheet the fill of highlight_rows with v == value lies on
\* the sheet rows that hold a table row with that value and on no other row,
\* also when subtotal rows are inserted in the same request
C22_FillOnMatchingRow ==
  (call.fn = "format_sheet" /\ ret.done) =>
    \A p \in 1..Len(ret.sheet) :
      ret.fills[p] <=>
        (ret.sheet[p].kind = "data" /\ ret.sheet[p].v = call.value)

\* ---- auto_filter

\* C26: unless the operations set auto_filter to false, the produced sheet
\* has a filter that spans the header row and every row of the final sheet,
\* rows inserted by subtotals included; with auto_filter false the apply
\* attaches no filter; on all four paths
C26_FilterCoversSheet ==
  (call.fn = "auto_filter" /\ ret.done) =>
    IF call.on THEN ret.filter = ret.rows ELSE ret.filter = 0

\* ---- styles on a chained request

\* C23: when a new workbook is built from the last generated one with rows
\* removed and no new highlight, every surviving row carries the style the
\* same row had in the base: the style of a removed row is on no surviving row
C23_StyleFollowsRow ==
  (res.success /\ req.kind = "single" /\ req.op.hl = 0
     /\ res.path \in {"create_from_last", "save_updated"}
     /\ pre.last.some /\ pre.last.path \in DOMAIN pre.disk) =>
    LET base == pre.disk[pre.last.path]
        new == disk[res.file]
    IN \A i \in 1..Len(new) :
         LET j == SheetPos(base, new[i].name) IN
         j # 0 =>
           \A p \in 1..Len(new[i].rows) :
             \E q \in 1..Len(base[j].rows) : base[j].rows[q] = new[i].rows[p]

\* ---- session bookkeeping and the workbook on disk

\* C30: after a successful apply the sheet names recorded for the last
\* generated file, and the sheet names of the session's per-sheet tables,
\* are the ordered sheet names of that file's workbook
C30_BookkeepingMatchesWorkbook ==
  (res.success /\ last_generated_file.some /\ last_generated_file.hasSheets
     /\ last_generated_file.path \in DOMAIN disk) =>
    LET names == BookNames(disk[last_generated_file.path])
        tables == SelectSeq(files, LAMBDA f : f.is_sheet)
    IN /\ last_generated_file.sheets = names
       /\ Len(tables) > 0 => SheetNames(tables) = names

\* ---- sheet names given in a merge request

\* C27: for every list of desired names, of any length, an input with a
\* match among the still-unused desired names receives a matching one, an
\* input without a match receives the next unused desired name, an input
\* falls back to its own name only when no desired name is left, and no
\* desired name is given to two inputs
C27_DesiredNames ==
  (call.fn = "sheet_names" /\ ret.done) =>
    LET D == call.sheet_names
        F == call.files
        r == ret.names
        Given(i) == {r[j] : j \in 1..(i - 1)}
        Unused(i) == SelectSeq(D, LAMBDA d : d \notin Given(i))
    IN /\ Len(r) = Len(F)
       /\ \A i \in 1..Len(F) :
            LET u == Unused(i) IN
            IF \E k \in 1..Len(u) : name_matches(u[k], F[i])
            THEN \E k \in 1..Len(u) : r[i] = u[k] /\ name_matches(u[k], F[i])
            ELSE IF Len(u) > 0 THEN r[i] = u[1]
            ELSE Len(r[i]) >= Len(F[i]) /\ SubSeq(r[i], 1, Len(F[i])) = F[i]
       /\ \A i, j \in 1..Len(F) :
            (i # j /\ r[i] = r[j]) => \A k \in 1..Len(D) : D[k] # r[i]
====
